---- MODULE Spec2Model ----
(***************************************************************************)
(* Model of packages/semver/src/executors/version/utils/git.ts: the git    *)
(* helpers of the version executor (getCommits, getLastCommitHash,         *)
(* tryPush, addToStage, getFirstCommitRef, createTag).  An invocation of   *)
(* one helper is followed from the call to the termination of the          *)
(* Observable it returns.  The external command runner (exec), the commit  *)
(* stream (git-raw-commits) and the timer are the environment: they answer *)
(* with results drawn from small sets of texts.                            *)
(***************************************************************************)
EXTENDS Integers, Sequences, FiniteSets, TLC

\* ---------------------------------------------------------------- bounds
\* Largest retry budget (retryTagCounter) a caller passes.
MaxRetry == 2

\* Cap on the number of external commands of one invocation; createTag runs
\* at most MaxRetry + 1 of them, so the cap is never reached: it only keeps
\* a retry loop that fails to count down finite.
MaxExecCalls == MaxRetry + 3

\* Largest number of 'data' events the commit stream delivers.
MaxChunks == 3

\* Largest number of addToStage calls the caller makes one after the other.
MaxStageCalls == 2

\* ---------------------------------------------------------------- inputs
\* The values null and undefined, distinct from every text and from each
\* other: a default parameter value replaces undefined only, '== null' holds
\* of both.
Null == "<null>"
Undefined == "<undefined>"

Tags == { "v1.0.0", "v2" }
CommitHash == "abc123"
CommitMessage == "chore(release): 1.0.0"
ProjectName == "demo"

\* retryTagCounter is a number; a negative budget is included.
RetryBudgets == (0 - 1)..MaxRetry

\* stderr texts of a failing command and stdout texts of a succeeding one.
ErrTexts == { "fatal: tag 'v1.0.0' already exists",
              "fatal: unable to write new-ref lock",
              "fatal: Already Exists",
              "fatal: the receiving end does not support --atomic push",
              "fatal: Atomic push is off",
              "" }
OutTexts == { "", "ok" }

\* Chunks the commit stream delivers, and the text of its error.
\* The third begins with a VT (U+000B) and ends with a space, a line end and
\* a VT.  The texts of the inputs keep to ASCII: TLC does not keep other
\* characters intact in the states it stores.
Chunks == { "  abc123\n", "def456", "\tfix: b \n" }
StreamErrTexts == { "fatal: bad revision" }
ProjectRoot == "libs/demo"
\* since as the caller passes it: absent (undefined), null, a reference.
Sinces == { Undefined, Null, "v0.9.0" }

\* Outputs of git rev-list --max-parents=0 HEAD.
\* The last has the lines VT c3 VT, VT, FF.
RevListOutputs == { "deadbeef\n\n", "", "aaa111\nbbb222\n", "  \n \n",
                    " a1 \r\n\tb2 \n \n", "c3\n\n\f" }

\* Path lists handed to addToStage, and results of git add.
PathLists == { << >>, << "a.txt" >>, << "b.txt", "a.txt" >> }
StageErrTexts == { "fatal: pathspec 'a.txt' did not match any files", "" }

\* remote and branch as the caller passes them: absent (undefined), null,
\* a name, the empty text.
Remotes == { Undefined, Null, "origin", "" }
Branches == { Undefined, Null, "main" }

\* ---------------------------------------------------------------- state
VARIABLES
    op,              \* the helper that was called: "none", "createTag",
                     \*   "tryPush", "getCommits", "getLastCommitHash",
                     \*   "getFirstCommitRef", "addToStage"
    pc,              \* where the invocation is: "idle", "tag", "timer",
                     \*   "pushAtomic", "pushFallback", "stream", "revList",
                     \*   "stage", "done"
    dryRun,          \* createTag / addToStage argument
    tag,             \* createTag / tryPush argument
    retryTagCounter, \* createTag argument: the retry budget
    retriesLeft,     \* parameter of the current attemptTagCreation call
    remote,          \* tryPush argument
    branch,          \* tryPush argument
    noVerify,        \* tryPush argument
    events,          \* what the invocation did, in order: commands started
                     \*   ("exec"), their results ("result"), timers started
                     \*   ("timer"), _logStep calls ("log") and values
                     \*   delivered to the subscriber ("next")
    outcome,         \* "pending", "completed" or "errored"
    error,           \* the error delivered to the subscriber, NoError if none
    commits,         \* getFormattedCommits: the accumulator of scan, which is
                     \*   the value last() holds
    paths,           \* addToStage argument
    skipStage        \* addToStage argument

vars == << op, pc, dryRun, tag, retryTagCounter, retriesLeft, remote, branch,
           noVerify, events, outcome, error, commits, paths, skipStage >>

tagArgs == << dryRun, tag, retryTagCounter >>
pushArgs == << remote, branch, noVerify >>
stageArgs == << paths, skipStage >>

\* ---------------------------------------------------------------- helpers
\* RegExp.prototype.test with a literal pattern: substring search.
Contains(needle, text) ==
    \E i \in 1..(Len(text) - Len(needle) + 1) :
        SubSeq(text, i, i + Len(needle) - 1) = needle

Pow2(n) == 2 ^ n

Last(seq) == seq[Len(seq)]

NoError == [origin |-> "none", message |-> ""]

\* The error a failing command raises: the raw stderr text.
RawError(stderr) == [origin |-> "exec", message |-> stderr]

\* exec('git', args): the command is started with this argument list.
ExecCall(args) == [kind |-> "exec", args |-> args]

\* The command ends: with its stdout text (ok) or its stderr text (not ok).
ExecResult(ok, text) == [kind |-> "result", ok |-> ok, text |-> text]

\* timer(ms)
TimerStart(ms) == [kind |-> "timer", ms |-> ms]

\* _logStep({step, level, message, projectName}); logStep logs at level info
\* each value that passes.
Notify(step, level, message) ==
    [kind |-> "log", step |-> step, level |-> level, message |-> message,
     projectName |-> ProjectName]

\* subscriber.next(value)
Emit(value) == [kind |-> "next", value |-> value]

OfKind(k) == SelectSeq(events, LAMBDA e : e.kind = k)
execLog == OfKind("exec")
execResults == OfKind("result")
timers == OfKind("timer")
notifications == OfKind("log")
emitted == OfKind("next")

\* ---------------------------------------------------------------- createTag
TagCommand(t) == << "tag", "-a", t, CommitHash, "-m", CommitMessage >>

\* Faulty variant: the pattern is not the one git prints.
IsAlreadyExistsWrongPattern(err) == Contains("tag already exists", err.message)

\* /already exists/.test(error)
IsAlreadyExists(err) == Contains("already exists", err.message)

TagAlreadyExistsError(t) ==
    [origin |-> "createTag",
     message |-> "Failed to tag \"" \o t \o "\", this tag already exists.\n"
        \o "              This error occurs because the same version was previously created but the tag does not point to a commit referenced in your base branch.\n"
        \o "              Please delete the tag by running \"git tag -d " \o t
        \o "\", make sure the tag has been removed from the remote repository as well and run this command again."]

\* Faulty variant: one retry too many.
CanRetryOffByOne(left) == left >= 0

\* retriesLeft > 0
CanRetry(left) == left > 0

\* Faulty variant: the exponent is the countdown itself.
BackoffDelayFromCountdown(budget, left) == Pow2(left) * 1000

\* Math.pow(2, retryTagCounter - retriesLeft) * 1000
BackoffDelay(budget, left) == Pow2(budget - left) * 1000

\* Faulty variant: the countdown is passed on as it is.
NextRetriesLeftSame(left) == left

\* attemptTagCreation(retriesLeft - 1)
NextRetriesLeft(left) == left - 1

TagSuccessMessage(t) == "Tagged \"" \o t \o "\"."

\* Faulty variant: the dry-run flag is not looked at.
CreateTagIgnoringDryRun(d, t, n) ==
    /\ pc = "idle"
    /\ op' = "createTag"
    /\ dryRun' = d
    /\ tag' = t
    /\ retryTagCounter' = n
    /\ pc' = "tag"
    /\ retriesLeft' = n
    /\ events' = Append(events, ExecCall(TagCommand(t)))
    /\ UNCHANGED << pushArgs, outcome, error, commits, stageArgs >>

\* createTag({dryRun, tag, ..., retryTagCounter}) is called and subscribed.
\* Dry run: EMPTY completes at once.  Otherwise attemptTagCreation(
\* retryTagCounter) starts the first git tag command.
CreateTag(d, t, n) ==
    /\ pc = "idle"
    /\ op' = "createTag"
    /\ dryRun' = d
    /\ tag' = t
    /\ retryTagCounter' = n
    /\ IF d
         THEN /\ pc' = "done"
              /\ outcome' = "completed"
              /\ UNCHANGED << retriesLeft, events >>
         ELSE /\ pc' = "tag"
              /\ retriesLeft' = n
              /\ events' = Append(events, ExecCall(TagCommand(t)))
              /\ UNCHANGED outcome
    /\ UNCHANGED << pushArgs, error, commits, stageArgs >>

\* Faulty variant: map(() => tag) is missing, the command output is passed on.
TagCommandSucceedsUnmapped(stdout) ==
    /\ pc = "tag"
    /\ events' = events \o << ExecResult(TRUE, stdout),
                              Notify("tag_success", "info", TagSuccessMessage(tag)),
                              Emit(stdout) >>
    /\ outcome' = "completed"
    /\ pc' = "done"
    /\ UNCHANGED << op, tagArgs, retriesLeft, pushArgs, error, commits, stageArgs >>

\* The git tag command succeeds: map(() => tag), logStep tag_success, complete.
TagCommandSucceeds(stdout) ==
    /\ pc = "tag"
    /\ events' = events \o << ExecResult(TRUE, stdout),
                              Notify("tag_success", "info", TagSuccessMessage(tag)),
                              Emit(tag) >>
    /\ outcome' = "completed"
    /\ pc' = "done"
    /\ UNCHANGED << op, tagArgs, retriesLeft, pushArgs, error, commits, stageArgs >>

\* The git tag command fails: the catchError handler of attemptTagCreation.
TagCommandFails(stderr) ==
    /\ pc = "tag"
    /\ IF IsAlreadyExists(RawError(stderr))
         THEN /\ events' = Append(events, ExecResult(FALSE, stderr))
              /\ error' = TagAlreadyExistsError(tag)
              /\ outcome' = "errored"
              /\ pc' = "done"
         ELSE IF CanRetry(retriesLeft)
           THEN /\ events' = events \o
                     << ExecResult(FALSE, stderr),
                        TimerStart(BackoffDelay(retryTagCounter, retriesLeft)) >>
                /\ pc' = "timer"
                /\ UNCHANGED << error, outcome >>
           ELSE /\ events' = Append(events, ExecResult(FALSE, stderr))
                /\ error' = RawError(stderr)
                /\ outcome' = "errored"
                /\ pc' = "done"
    /\ UNCHANGED << op, tagArgs, retriesLeft, pushArgs, commits, stageArgs >>

\* The timer fires: switchMap(() => attemptTagCreation(retriesLeft - 1)).
TimerFires ==
    /\ pc = "timer"
    /\ Len(execLog) < MaxExecCalls
    /\ retriesLeft' = NextRetriesLeft(retriesLeft)
    /\ events' = Append(events, ExecCall(TagCommand(tag)))
    /\ pc' = "tag"
    /\ UNCHANGED << op, tagArgs, pushArgs, outcome, error, commits, stageArgs >>

\* ---------------------------------------------------------------- tryPush
\* Faulty variant: the empty text is taken for the absent option.
IsMissingWhenEmpty(v) == v = ""

\* remote == null, branch == null: true of null and of undefined; "" is a
\* value.
IsMissing(v) == v \in { Null, Undefined }

MissingOptionError ==
    [origin |-> "tryPush",
     message |-> "Missing option --remote or --branch, see: https://github.com/jscutlery/semver#configure."]

\* [...(noVerify ? ['--no-verify'] : [])]
GitPushOptions(nv) == IF nv THEN << "--no-verify" >> ELSE << >>

\* ['push', ...gitPushOptions, '--atomic', remote, branch, tag]
AtomicPushCommand(nv, r, b, t) ==
    << "push" >> \o GitPushOptions(nv) \o << "--atomic", r, b, t >>

\* Faulty variant: the fallback drops the push options.
FallbackPushCommandBare(nv, r, b, t) == << "push", r, b, t >>

\* ['push', ...gitPushOptions, remote, branch, tag]
FallbackPushCommand(nv, r, b, t) ==
    << "push" >> \o GitPushOptions(nv) \o << r, b, t >>

\* /atomic/.test(error)
IsAtomicFailure(err) == Contains("atomic", err.message)

AtomicWarning == "Git push --atomic failed, attempting non-atomic push."

PushSuccessMessage(r, b) == "Pushed to \"" \o r \o "\" \"" \o b \o "\"."

\* tryPush({remote, branch, noVerify, projectName, tag}) is called and
\* subscribed: the option check, then the atomic push command is started.
TryPush(r, b, nv, t) ==
    /\ pc = "idle"
    /\ op' = "tryPush"
    /\ remote' = r
    /\ branch' = b
    /\ noVerify' = nv
    /\ tag' = t
    /\ IF IsMissing(r) \/ IsMissing(b)
         THEN /\ error' = MissingOptionError
              /\ outcome' = "errored"
              /\ pc' = "done"
              /\ UNCHANGED events
         ELSE /\ events' = Append(events, ExecCall(AtomicPushCommand(nv, r, b, t)))
              /\ pc' = "pushAtomic"
              /\ UNCHANGED << error, outcome >>
    /\ UNCHANGED << dryRun, retryTagCounter, retriesLeft, commits, stageArgs >>

\* Faulty variant: the remote name is delivered in place of the output.
PushCommandSucceedsWithRemote(stdout) ==
    /\ pc \in {"pushAtomic", "pushFallback"}
    /\ events' = events \o
         << ExecResult(TRUE, stdout),
            Notify("push_success", "info", PushSuccessMessage(remote, branch)),
            Emit(remote) >>
    /\ outcome' = "completed"
    /\ pc' = "done"
    /\ UNCHANGED << op, tagArgs, retriesLeft, pushArgs, error, commits, stageArgs >>

\* A push command (atomic or fallback) succeeds: its output goes through
\* logStep push_success to the subscriber, then completion.
PushCommandSucceeds(stdout) ==
    /\ pc \in {"pushAtomic", "pushFallback"}
    /\ events' = events \o
         << ExecResult(TRUE, stdout),
            Notify("push_success", "info", PushSuccessMessage(remote, branch)),
            Emit(stdout) >>
    /\ outcome' = "completed"
    /\ pc' = "done"
    /\ UNCHANGED << op, tagArgs, retriesLeft, pushArgs, error, commits, stageArgs >>

\* Faulty variant: the warning is logged for every failure of the atomic push.
AtomicPushFailsAlwaysWarning(stderr) ==
    /\ pc = "pushAtomic"
    /\ IF IsAtomicFailure(RawError(stderr))
         THEN /\ events' = events \o
                   << ExecResult(FALSE, stderr),
                      Notify("warning", "warn", AtomicWarning),
                      ExecCall(FallbackPushCommand(noVerify, remote, branch, tag)) >>
              /\ pc' = "pushFallback"
              /\ UNCHANGED << error, outcome >>
         ELSE /\ events' = events \o
                   << ExecResult(FALSE, stderr),
                      Notify("warning", "warn", AtomicWarning) >>
              /\ error' = RawError(stderr)
              /\ outcome' = "errored"
              /\ pc' = "done"
    /\ UNCHANGED << op, tagArgs, retriesLeft, pushArgs, commits, stageArgs >>

\* The atomic push fails: the catchError handler of tryPush.
AtomicPushFails(stderr) ==
    /\ pc = "pushAtomic"
    /\ IF IsAtomicFailure(RawError(stderr))
         THEN /\ events' = events \o
                   << ExecResult(FALSE, stderr),
                      Notify("warning", "warn", AtomicWarning),
                      ExecCall(FallbackPushCommand(noVerify, remote, branch, tag)) >>
              /\ pc' = "pushFallback"
              /\ UNCHANGED << error, outcome >>
         ELSE /\ events' = Append(events, ExecResult(FALSE, stderr))
              /\ error' = RawError(stderr)
              /\ outcome' = "errored"
              /\ pc' = "done"
    /\ UNCHANGED << op, tagArgs, retriesLeft, pushArgs, commits, stageArgs >>

\* The fallback push fails: nothing catches the error.
FallbackPushFails(stderr) ==
    /\ pc = "pushFallback"
    /\ events' = Append(events, ExecResult(FALSE, stderr))
    /\ error' = RawError(stderr)
    /\ outcome' = "errored"
    /\ pc' = "done"
    /\ UNCHANGED << op, tagArgs, retriesLeft, pushArgs, commits, stageArgs >>

\* ---------------------------------------------------------------- getFormattedCommits
\* subscriber.complete() and subscriber.error(err) as the subscriber sees them.
Complete == [kind |-> "complete"]
Fail(err) == [kind |-> "error", error |-> err]

\* The params handed to gitRawCommits: 'no-merges' is set only when merge
\* commits are ignored.  The default since = '' stands in for undefined
\* only; null is handed on as it is.
RawCommitsParams(since, format, ignoreMergeCommits) ==
    IF ignoreMergeCommits
      THEN [from |-> IF since = Undefined THEN "" ELSE since, format |-> format,
            path |-> ProjectRoot, fullHistory |-> TRUE, noMerges |-> TRUE]
      ELSE [from |-> IF since = Undefined THEN "" ELSE since, format |-> format,
            path |-> ProjectRoot, fullHistory |-> TRUE]

\* gitRawCommits(params) and the events of the stream it returns.
StreamOpen(params) == [kind |-> "stream", params |-> params]
DataEvent(chunk) == [kind |-> "data", chunk |-> chunk]
StreamErrorEvent(text) == [kind |-> "streamError", text |-> text]
SignalEvent(signal) == [kind |-> signal]

\* The observer takes nothing more once it has completed or failed.
isStopped == outcome # "pending"

\* commit.toString() of a text chunk: the same text.
ChunkToString(chunk) == chunk

\* Faulty variant: the new commit is put in front.
ScanStepPrepending(acc, commit) == << ChunkToString(commit) >> \o acc

\* scan((commits, commit) => [...commits, commit.toString()], [])
ScanStep(acc, commit) == Append(acc, ChunkToString(commit))

\* String.prototype.trim: WhiteSpace and LineTerminator code points off both
\* ends.  These are, in the order written below: SPACE, TAB, LF, CR, FF,
\* VT (U+000B), NBSP (U+00A0), BOM (U+FEFF), OGHAM SPACE MARK (U+1680).  The
\* last four are written as the characters themselves.  The other code
\* points trim removes (U+2000..U+200A, U+2028, U+2029, U+202F, U+205F,
\* U+3000) cannot be written in a text of this language.
WhiteSpaceChars ==
    { " ", "\t", "\n", "\r", "\f", "", " ", "﻿", " " }

IsWhiteSpace(c) == c \in WhiteSpaceChars

RECURSIVE TrimStart(_)
TrimStart(text) ==
    IF Len(text) > 0 /\ IsWhiteSpace(SubSeq(text, 1, 1))
      THEN TrimStart(SubSeq(text, 2, Len(text)))
      ELSE text

RECURSIVE TrimEnd(_)
TrimEnd(text) ==
    IF Len(text) > 0 /\ IsWhiteSpace(SubSeq(text, Len(text), Len(text)))
      THEN TrimEnd(SubSeq(text, 1, Len(text) - 1))
      ELSE text

Trim(text) == TrimEnd(TrimStart(text))

\* Reading 'trim' of undefined.
TrimOfUndefinedError ==
    [origin |-> "TypeError",
     message |-> "Cannot read properties of undefined (reading 'trim')"]

\* Faulty variant: the last record is taken.
LastCommitHashOfLastRecord(list) ==
    IF list = << >>
      THEN << Fail(TrimOfUndefinedError) >>
      ELSE << Emit(Trim(Last(list))), Complete >>

\* Faulty variant: an empty list gives an empty hash.
LastCommitHashOfLenient(list) ==
    IF list = << >>
      THEN << Emit(""), Complete >>
      ELSE << Emit(Trim(list[1])), Complete >>

\* map(([commit]) => commit.trim()) of getLastCommitHash: what the
\* subscriber gets for the final list.
LastCommitHashOf(list) ==
    IF list = << >>
      THEN << Fail(TrimOfUndefinedError) >>
      ELSE << Emit(Trim(list[1])), Complete >>

\* What the subscriber of the helper gets when last() lets the final list go.
Delivery(helper, list) ==
    IF helper = "getLastCommitHash"
      THEN LastCommitHashOf(list)
      ELSE << Emit(list), Complete >>

\* getFormattedCommits(...) is called and subscribed: gitRawCommits is
\* started with the params, startWith([]) seeds the value last() holds.
GetFormattedCommits(helper, since, format, ignoreMergeCommits) ==
    /\ pc = "idle"
    /\ op' = helper
    /\ pc' = "stream"
    /\ commits' = << >>
    /\ events' = Append(events,
           StreamOpen(RawCommitsParams(since, format, ignoreMergeCommits)))
    /\ UNCHANGED << tagArgs, retriesLeft, pushArgs, outcome, error, stageArgs >>

\* getCommits({projectRoot, since})
GetCommits(since) == GetFormattedCommits("getCommits", since, "%B", TRUE)

\* getLastCommitHash({projectRoot})
GetLastCommitHash ==
    GetFormattedCommits("getLastCommitHash", Undefined, "%H", FALSE)

ReaderOps == { "getCommits", "getLastCommitHash" }

CountKind(k) == Len(OfKind(k))

\* on('data', (data) => observer.next(data)): scan takes the chunk in.
StreamData(chunk) ==
    /\ op \in ReaderOps
    /\ CountKind("data") < MaxChunks
    /\ events' = Append(events, DataEvent(chunk))
    /\ commits' = IF isStopped THEN commits ELSE ScanStep(commits, chunk)
    /\ UNCHANGED << op, pc, tagArgs, retriesLeft, pushArgs, outcome, error, stageArgs >>

\* Faulty variant: the list gathered so far is delivered before the error.
StreamErrorFlushing(text) ==
    /\ op \in ReaderOps
    /\ CountKind("streamError") = 0
    /\ IF isStopped
         THEN /\ events' = Append(events, StreamErrorEvent(text))
              /\ UNCHANGED << pc, outcome, error >>
         ELSE /\ events' = events \o
                   << StreamErrorEvent(text), Emit(commits),
                      Fail([origin |-> "stream", message |-> text]) >>
              /\ outcome' = "errored"
              /\ error' = [origin |-> "stream", message |-> text]
              /\ pc' = "done"
    /\ UNCHANGED << op, tagArgs, retriesLeft, pushArgs, commits, stageArgs >>

\* Faulty variant: an error is delivered even after the end.
StreamErrorUnguarded(text) ==
    /\ op \in ReaderOps
    /\ CountKind("streamError") = 0
    /\ events' = events \o
         << StreamErrorEvent(text), Fail([origin |-> "stream", message |-> text]) >>
    /\ outcome' = "errored"
    /\ error' = [origin |-> "stream", message |-> text]
    /\ pc' = "done"
    /\ UNCHANGED << op, tagArgs, retriesLeft, pushArgs, commits, stageArgs >>

\* on('error', (error) => observer.error(error)): the error goes through
\* scan, startWith, last (and map) to the subscriber.
StreamError(text) ==
    /\ op \in ReaderOps
    /\ CountKind("streamError") = 0
    /\ IF isStopped
         THEN /\ events' = Append(events, StreamErrorEvent(text))
              /\ UNCHANGED << pc, outcome, error >>
         ELSE /\ events' = events \o
                   << StreamErrorEvent(text),
                      Fail([origin |-> "stream", message |-> text]) >>
              /\ outcome' = "errored"
              /\ error' = [origin |-> "stream", message |-> text]
              /\ pc' = "done"
    /\ UNCHANGED << op, tagArgs, retriesLeft, pushArgs, commits, stageArgs >>

\* Faulty variant: every completion signal is acted upon.
StreamCompletesEachTime(signal) ==
    /\ op \in ReaderOps
    /\ CountKind(signal) = 0
    /\ events' = events \o << SignalEvent(signal) >> \o Delivery(op, commits)
    /\ pc' = "done"
    /\ IF Last(Delivery(op, commits)) = Complete
         THEN outcome' = "completed" /\ UNCHANGED error
         ELSE /\ outcome' = "errored"
              /\ error' = Last(Delivery(op, commits)).error
    /\ UNCHANGED << op, tagArgs, retriesLeft, pushArgs, commits, stageArgs >>

\* on('close', () => observer.complete()), on('finish', () =>
\* observer.complete()): last() lets the held list go, then completion.
StreamCompletes(signal) ==
    /\ op \in ReaderOps
    /\ CountKind(signal) = 0
    /\ IF isStopped
         THEN /\ events' = Append(events, SignalEvent(signal))
              /\ UNCHANGED << pc, outcome, error >>
         ELSE /\ events' = events \o << SignalEvent(signal) >> \o Delivery(op, commits)
              /\ pc' = "done"
              /\ IF Last(Delivery(op, commits)) = Complete
                   THEN outcome' = "completed" /\ UNCHANGED error
                   ELSE /\ outcome' = "errored"
                        /\ error' = Last(Delivery(op, commits)).error
    /\ UNCHANGED << op, tagArgs, retriesLeft, pushArgs, commits, stageArgs >>

\* ---------------------------------------------------------------- getFirstCommitRef
RevListCommand == << "rev-list", "--max-parents=0", "HEAD" >>

\* output.split('\n')
RECURSIVE SplitLines(_)
SplitLines(text) ==
    IF \E i \in 1..Len(text) : SubSeq(text, i, i) = "\n"
      THEN LET i == CHOOSE i \in 1..Len(text) :
                        /\ SubSeq(text, i, i) = "\n"
                        /\ \A j \in 1..(i - 1) : SubSeq(text, j, j) # "\n"
           IN << SubSeq(text, 1, i - 1) >> \o SplitLines(SubSeq(text, i + 1, Len(text)))
      ELSE << text >>

\* .map((c) => c.trim()).filter(Boolean)
TrimmedLines(text) ==
    LET lines == SplitLines(text)
    IN SelectSeq([i \in DOMAIN lines |-> Trim(lines[i])], LAMBDA l : l # "")

\* Faulty variant: the first line is taken (shift for pop).
FirstCommitRefOfFirstLine(output) ==
    IF TrimmedLines(output) = << >> THEN "" ELSE TrimmedLines(output)[1]

\* output.split('\n').map((c) => c.trim()).filter(Boolean).pop() ?? ''
FirstCommitRefOf(output) ==
    IF TrimmedLines(output) = << >> THEN "" ELSE Last(TrimmedLines(output))

\* getFirstCommitRef() is called and subscribed: git rev-list is started.
GetFirstCommitRef ==
    /\ pc = "idle"
    /\ op' = "getFirstCommitRef"
    /\ pc' = "revList"
    /\ events' = Append(events, ExecCall(RevListCommand))
    /\ UNCHANGED << tagArgs, retriesLeft, pushArgs, outcome, error, commits, stageArgs >>

\* git rev-list succeeds: the output goes through map to the subscriber.
RevListSucceeds(output) ==
    /\ pc = "revList"
    /\ events' = events \o
         << ExecResult(TRUE, output), Emit(FirstCommitRefOf(output)), Complete >>
    /\ outcome' = "completed"
    /\ pc' = "done"
    /\ UNCHANGED << op, tagArgs, retriesLeft, pushArgs, error, commits, stageArgs >>

\* git rev-list fails: the error passes map untouched.
RevListFails(stderr) ==
    /\ pc = "revList"
    /\ events' = events \o << ExecResult(FALSE, stderr), Fail(RawError(stderr)) >>
    /\ outcome' = "errored"
    /\ error' = RawError(stderr)
    /\ pc' = "done"
    /\ UNCHANGED << op, tagArgs, retriesLeft, pushArgs, commits, stageArgs >>

\* ---------------------------------------------------------------- addToStage
\* The caller calls addToStage({paths, dryRun, skipStage}) and subscribes.
StageCall(ps, d, skip) ==
    [kind |-> "call", paths |-> ps, dryRun |-> d, skipStage |-> skip]

\* Faulty variant: the dry-run flag is left out.
StageCommandWithoutDryRun(d, ps) == << "add" >> \o ps

\* ['add', ...(dryRun ? ['--dry-run'] : []), ...paths]
StageCommand(d, ps) ==
    << "add" >> \o (IF d THEN << "--dry-run" >> ELSE << >>) \o ps

\* Faulty variant: the skip flag is not looked at.
AddToStageIgnoringSkip(ps, d, skip) ==
    /\ \/ pc = "idle"
       \/ pc = "done" /\ op = "addToStage" /\ CountKind("call") < MaxStageCalls
    /\ op' = "addToStage"
    /\ paths' = ps
    /\ dryRun' = d
    /\ skipStage' = skip
    /\ error' = NoError
    /\ IF Len(ps) = 0
         THEN /\ events' = events \o << StageCall(ps, d, skip), Complete >>
              /\ outcome' = "completed"
              /\ pc' = "done"
         ELSE /\ events' = events \o
                   << StageCall(ps, d, skip), ExecCall(StageCommand(d, ps)) >>
              /\ outcome' = "pending"
              /\ pc' = "stage"
    /\ UNCHANGED << tag, retryTagCounter, retriesLeft, pushArgs, commits >>

\* addToStage({paths, dryRun, skipStage}) is called and subscribed: EMPTY
\* for no paths, of(undefined) for a skipped stage, else git add is started.
\* The caller may call it again once the previous call has ended.
AddToStage(ps, d, skip) ==
    /\ \/ pc = "idle"
       \/ pc = "done" /\ op = "addToStage" /\ CountKind("call") < MaxStageCalls
    /\ op' = "addToStage"
    /\ paths' = ps
    /\ dryRun' = d
    /\ skipStage' = skip
    /\ error' = NoError
    /\ IF Len(ps) = 0
         THEN /\ events' = events \o << StageCall(ps, d, skip), Complete >>
              /\ outcome' = "completed"
              /\ pc' = "done"
         ELSE IF skip
           THEN /\ events' = events \o
                     << StageCall(ps, d, skip), Emit(Undefined), Complete >>
                /\ outcome' = "completed"
                /\ pc' = "done"
           ELSE /\ events' = events \o
                     << StageCall(ps, d, skip), ExecCall(StageCommand(d, ps)) >>
                /\ outcome' = "pending"
                /\ pc' = "stage"
    /\ UNCHANGED << tag, retryTagCounter, retriesLeft, pushArgs, commits >>

\* git add succeeds: map(() => undefined), then completion.
StageCommandSucceeds(stdout) ==
    /\ pc = "stage"
    /\ events' = events \o << ExecResult(TRUE, stdout), Emit(Undefined), Complete >>
    /\ outcome' = "completed"
    /\ pc' = "done"
    /\ UNCHANGED << op, tagArgs, retriesLeft, pushArgs, error, commits, stageArgs >>

\* git add fails: the error passes map untouched.
StageCommandFails(stderr) ==
    /\ pc = "stage"
    /\ events' = events \o << ExecResult(FALSE, stderr), Fail(RawError(stderr)) >>
    /\ outcome' = "errored"
    /\ error' = RawError(stderr)
    /\ pc' = "done"
    /\ UNCHANGED << op, tagArgs, retriesLeft, pushArgs, commits, stageArgs >>

\* ---------------------------------------------------------------- system
Init ==
    /\ op = "none"
    /\ pc = "idle"
    /\ dryRun = FALSE
    /\ tag = ""
    /\ retryTagCounter = 0
    /\ retriesLeft = 0
    /\ remote = Null
    /\ branch = Null
    /\ noVerify = FALSE
    /\ events = << >>
    /\ outcome = "pending"
    /\ error = NoError
    /\ commits = << >>
    /\ paths = << >>
    /\ skipStage = FALSE

CallCreateTag == \E d \in BOOLEAN, t \in Tags, n \in RetryBudgets : CreateTag(d, t, n)
TagSucceeds == \E s \in OutTexts : TagCommandSucceeds(s)
TagFails == \E e \in ErrTexts : TagCommandFails(e)
CallTryPush ==
    \E r \in Remotes, b \in Branches, nv \in BOOLEAN, t \in Tags : TryPush(r, b, nv, t)
PushSucceeds == \E s \in OutTexts : PushCommandSucceeds(s)
AtomicFails == \E e \in ErrTexts : AtomicPushFails(e)
FallbackFails == \E e \in ErrTexts : FallbackPushFails(e)
CallGetCommits == \E since \in Sinces : GetCommits(since)
CallGetLastCommitHash == GetLastCommitHash
Data == \E c \in Chunks : StreamData(c)
ErrorSignal == \E e \in StreamErrTexts : StreamError(e)
CompletionSignal == \E sig \in { "close", "finish" } : StreamCompletes(sig)
RevListReturns == \E o \in RevListOutputs : RevListSucceeds(o)
RevListErrors == \E e \in ErrTexts : RevListFails(e)
CallAddToStage ==
    \E ps \in PathLists, d \in BOOLEAN, skip \in BOOLEAN : AddToStage(ps, d, skip)
StageSucceeds == \E o \in OutTexts : StageCommandSucceeds(o)
StageFails == \E e \in StageErrTexts : StageCommandFails(e)

Next ==
    \/ CallCreateTag
    \/ TagSucceeds
    \/ TagFails
    \/ TimerFires
    \/ CallTryPush
    \/ PushSucceeds
    \/ AtomicFails
    \/ FallbackFails
    \/ CallGetCommits
    \/ CallGetLastCommitHash
    \/ Data
    \/ ErrorSignal
    \/ CompletionSignal
    \/ GetFirstCommitRef
    \/ RevListReturns
    \/ RevListErrors
    \/ CallAddToStage
    \/ StageSucceeds
    \/ StageFails

Spec == Init /\ [][Next]_vars

\* Every started command returns and every started timer fires.
FairSpec ==
    /\ Spec
    /\ WF_vars(TagSucceeds \/ TagFails)
    /\ WF_vars(TimerFires)
    /\ WF_vars(PushSucceeds \/ AtomicFails \/ FallbackFails)
    /\ WF_vars(RevListReturns \/ RevListErrors)
    /\ WF_vars(StageSucceeds \/ StageFails)

\* ================================================================ claims
Count(seq, Test(_)) == Len(SelectSeq(seq, Test))

\* A command result that is a failure whose text mentions "already exists".
AlreadyExistsFailure(r) == ~r.ok /\ Contains("already exists", r.text)

\* A command result that is a failure of any other kind.
TransientFailure(r) == ~r.ok /\ ~Contains("already exists", r.text)

\* C1: in createTag, a tag command (first attempt or retry) that fails with
\* a text containing "already exists" is the last thing the invocation does:
\* no timer and no command follows it, whatever retriesLeft is, and the
\* invocation has failed with the tag-already-exists error.
C1_AlreadyExistsIsFinal ==
    op = "createTag" =>
        \A i \in DOMAIN events :
            (events[i].kind = "result" /\ AlreadyExistsFailure(events[i])) =>
                /\ i = Len(events)
                /\ pc = "done"
                /\ outcome = "errored"
                /\ error = TagAlreadyExistsError(tag)

\* A retry fails with "already exists" while retries remain.
C1_Witness ==
    /\ op = "createTag"
    /\ pc = "done"
    /\ Len(execResults) >= 2
    /\ AlreadyExistsFailure(Last(execResults))
    /\ retriesLeft > 0

\* C2: createTag with budget N >= 0 never runs more than N + 1 tag commands;
\* when it has ended and every command failed with a text not containing
\* "already exists", exactly N + 1 commands were run, N of them after a
\* wait, and the invocation failed with the raw error of the last command.
C2_ExhaustionAfterNRetries ==
    (op = "createTag" /\ ~dryRun /\ retryTagCounter >= 0) =>
        /\ Len(execLog) <= retryTagCounter + 1
        /\ (pc = "done" /\ \A i \in DOMAIN execResults : TransientFailure(execResults[i])) =>
              /\ Len(execLog) = retryTagCounter + 1
              /\ Len(execResults) = retryTagCounter + 1
              /\ Len(timers) = retryTagCounter
              /\ outcome = "errored"
              /\ error = [origin |-> "exec", message |-> Last(execResults).text]

\* Budget 2 is exhausted and the last error differs from the first.
C2_Witness ==
    /\ op = "createTag"
    /\ pc = "done"
    /\ retryTagCounter >= 2
    /\ \A i \in DOMAIN execResults : TransientFailure(execResults[i])
    /\ Len(execResults) = retryTagCounter + 1
    /\ execResults[1].text # Last(execResults).text

\* The waits follow 1s, 2s, 4s, ...; the retries already made (commands
\* after the first) and the retries remaining add up to the budget.
BackoffSchedule ==
    (op = "createTag" /\ ~dryRun) =>
        /\ \A k \in DOMAIN timers : timers[k].ms = Pow2(k - 1) * 1000
        /\ pc = "timer" => Last(timers).ms = Pow2(retryTagCounter - retriesLeft) * 1000
        /\ (Len(execLog) - 1) + retriesLeft = retryTagCounter

\* C3: in createTag, the wait before the k-th retry lasts 2^(k-1) seconds,
\* which is 2^(budget - retries remaining) at the time the wait starts; the
\* budget is not changed once the invocation has started; and the retries
\* already made plus the retries remaining equal the budget throughout.
C3_ExponentialBackoff ==
    /\ []BackoffSchedule
    /\ [][op = "createTag" => retryTagCounter' = retryTagCounter]_vars

\* The second wait (2 seconds) is in progress.
C3_Witness ==
    /\ op = "createTag"
    /\ pc = "timer"
    /\ Len(timers) = 2
    /\ retriesLeft = retryTagCounter - 1

\* The states of the Tag Manager state machine, read off the invocation.
TagIdle == pc = "idle"
TagAttempting == pc = "tag"
TagWaiting == pc = "timer"
TagSuccess == pc = "done" /\ outcome = "completed"
TagPermanentFailure ==
    pc = "done" /\ outcome = "errored" /\ error.origin = "createTag"
TagTransientFailureExhausted ==
    pc = "done" /\ outcome = "errored" /\ error.origin = "exec"

TagStates ==
    (IF TagIdle THEN {"Idle"} ELSE {})
    \cup (IF TagAttempting THEN {"Attempting"} ELSE {})
    \cup (IF TagWaiting THEN {"Waiting"} ELSE {})
    \cup (IF TagSuccess THEN {"Success"} ELSE {})
    \cup (IF TagPermanentFailure THEN {"PermanentFailure"} ELSE {})
    \cup (IF TagTransientFailureExhausted THEN {"TransientFailureExhausted"} ELSE {})

TagTerminal == {"Success", "PermanentFailure", "TransientFailureExhausted"}

TagEdges ==
    {"Idle"} \X {"Attempting"}
    \cup {"Attempting"} \X ({"Waiting"} \cup TagTerminal)
    \cup {"Waiting"} \X {"Attempting"}

\* createTag was called without dry-run (now, or by the step being taken).
TagInvocation == op = "createTag" /\ ~dryRun

\* C4: every createTag invocation that is not a dry run, with commands and
\* timers that eventually return, eventually is in a terminal state; it is
\* always in exactly one state of the machine; each step moves along an
\* edge Idle -> Attempting -> {Success, PermanentFailure, Waiting,
\* TransientFailureExhausted}, Waiting -> Attempting; no step leaves a
\* terminal state.
C4_TagStateMachine ==
    /\ (TagInvocation ~> (TagStates \cap TagTerminal # {}))
    /\ [](TagInvocation => Cardinality(TagStates) = 1)
    /\ [][TagInvocation' =>
            \E a \in TagStates, b \in TagStates' : << a, b >> \in TagEdges]_vars

\* Retries ran out after at least one wait.
C4_Witness ==
    /\ TagInvocation
    /\ TagTransientFailureExhausted
    /\ Len(timers) >= 1

IsTagSuccessLog(e) == e.step = "tag_success"

\* C5: in createTag, if some tag command succeeded the subscriber received
\* exactly one value, the tag name, and "tag_success" was logged exactly
\* once, naming the tag, before completion; if none succeeded (dry run,
\* permanent failure, retries exhausted, or still running) no value was
\* delivered and nothing was logged.
C5_TagNameOnlyOnSuccess ==
    op = "createTag" =>
        IF \E i \in DOMAIN execResults : execResults[i].ok
          THEN /\ emitted = << Emit(tag) >>
               /\ Count(notifications, IsTagSuccessLog) = 1
               /\ Contains(tag, Last(notifications).message)
               /\ outcome = "completed"
               /\ pc = "done"
          ELSE /\ emitted = << >>
               /\ notifications = << >>
               /\ outcome = "completed" => dryRun

\* A retry succeeded.
C5_Witness ==
    /\ op = "createTag"
    /\ Len(execResults) >= 2
    /\ Last(execResults).ok
    /\ outcome = "completed"

\* C6: createTag with dry-run set does nothing (no command, no timer, no
\* notification, no value) and has completed, for every tag and budget.
C6_DryRunIsNoOp ==
    (op = "createTag" /\ dryRun) =>
        /\ events = << >>
        /\ outcome = "completed"
        /\ error = NoError
        /\ pc = "done"

\* A dry run with a positive retry budget.
C6_Witness ==
    /\ op = "createTag"
    /\ dryRun
    /\ retryTagCounter > 0
    /\ pc = "done"

\* C7: tryPush with the remote or the branch absent (null or undefined) has
\* failed at once with
\* the configuration error, without any command, notification or value.
C7_MissingOptionFailsFirst ==
    (op = "tryPush" /\ ({ remote, branch } \cap { Null, Undefined } # {})) =>
        /\ events = << >>
        /\ pc = "done"
        /\ outcome = "errored"
        /\ error = MissingOptionError

\* The remote is given (even as the empty text) and the branch is absent.
C7_Witness ==
    /\ op = "tryPush"
    /\ remote = ""
    /\ branch = Null
    /\ pc = "done"

\* A command failure whose text mentions "atomic".
AtomicFailure(r) == ~r.ok /\ Contains("atomic", r.text)

WithoutAtomicFlag(args) == SelectSeq(args, LAMBDA a : a # "--atomic")

\* C8: tryPush runs at most two push commands.  The first carries --atomic.
\* If it fails with a text containing "atomic", exactly one more command is
\* run: the same argument list without --atomic; when that one fails its
\* error is the error of the invocation and nothing follows, whatever its
\* text.  If the first fails with another text, no second command is run
\* and its error is the error of the invocation.
C8_SingleAtomicFallback ==
    op = "tryPush" =>
        /\ Len(execLog) <= 2
        /\ execLog # << >> =>
              execLog[1].args = << "push" >>
                  \o (IF noVerify THEN << "--no-verify" >> ELSE << >>)
                  \o << "--atomic", remote, branch, tag >>
        /\ execResults # << >> =>
              IF AtomicFailure(execResults[1])
                THEN /\ Len(execLog) = 2
                     /\ execLog[2].args = WithoutAtomicFlag(execLog[1].args)
                     /\ Len(execLog[2].args) = Len(execLog[1].args) - 1
                     /\ (Len(execResults) = 2 /\ ~execResults[2].ok) =>
                           /\ pc = "done"
                           /\ outcome = "errored"
                           /\ error = [origin |-> "exec", message |-> execResults[2].text]
                           /\ Last(events) = execResults[2]
                ELSE /\ Len(execLog) = 1
                     /\ ~execResults[1].ok =>
                           /\ pc = "done"
                           /\ outcome = "errored"
                           /\ error = [origin |-> "exec", message |-> execResults[1].text]
                           /\ Last(events) = execResults[1]

\* With --no-verify, the fallback itself failed with a text mentioning "atomic".
C8_Witness ==
    /\ op = "tryPush"
    /\ noVerify
    /\ pc = "done"
    /\ Len(execResults) = 2
    /\ AtomicFailure(execResults[2])

\* C9 as stated: a successful tryPush delivers the remote name.
C9_ReturnsRemoteName ==
    (op = "tryPush" /\ outcome = "completed") => emitted = << Emit(remote) >>

\* C9 (amended): a successful tryPush delivers exactly one value, the output
\* text of the push command that succeeded (atomic or fallback).
C9_ReturnsPushOutput ==
    (op = "tryPush" /\ outcome = "completed") =>
        /\ Last(execResults).ok
        /\ emitted = << Emit(Last(execResults).text) >>

\* The fallback push succeeded with an output that is not the remote name.
C9_Witness ==
    /\ op = "tryPush"
    /\ outcome = "completed"
    /\ Len(execLog) = 2
    /\ Last(execResults).text # remote

IsPushSuccessLog(e) == e.kind = "log" /\ e.step = "push_success"
IsWarningLog(e) == e.kind = "log" /\ e.step = "warning"

\* C10: in tryPush, "push_success" is logged once if the invocation has
\* completed and not at all otherwise, and what precedes it is the
\* successful result of a push command; the warning is logged once if the
\* fallback command was run and not at all otherwise, and it stands between
\* the failure of the atomic push and the start of the fallback command.
C10_NotificationOrder ==
    op = "tryPush" =>
        /\ Count(events, IsPushSuccessLog) = (IF outcome = "completed" THEN 1 ELSE 0)
        /\ Count(events, IsWarningLog) = (IF Len(execLog) = 2 THEN 1 ELSE 0)
        /\ \A i \in DOMAIN events :
              /\ IsPushSuccessLog(events[i]) =>
                    /\ i > 1
                    /\ events[i - 1].kind = "result"
                    /\ events[i - 1].ok
              /\ IsWarningLog(events[i]) =>
                    /\ i > 1
                    /\ events[i - 1].kind = "result"
                    /\ AtomicFailure(events[i - 1])
                    /\ i < Len(events)
                    /\ events[i + 1].kind = "exec"
                    /\ events[i + 1] = execLog[2]

\* The fallback was taken and succeeded: both notifications were logged.
C10_Witness ==
    /\ op = "tryPush"
    /\ outcome = "completed"
    /\ Count(events, IsWarningLog) = 1
    /\ Count(events, IsPushSuccessLog) = 1

\* ---- Commit History Reader
IsCompletionSignal(e) == e.kind \in { "close", "finish" }
IsStreamEnd(e) == e.kind \in { "close", "finish", "streamError" }

\* Index of the first event of the log that passes the test (0 if none).
FirstIndex(Test(_)) ==
    IF \E i \in DOMAIN events : Test(events[i])
      THEN CHOOSE i \in DOMAIN events :
               Test(events[i]) /\ \A j \in 1..(i - 1) : ~Test(events[j])
      ELSE 0

\* The stream ended normally: a completion signal came, and no error before it.
EndedBySignal ==
    FirstIndex(IsStreamEnd) > 0 /\ IsCompletionSignal(events[FirstIndex(IsStreamEnd)])

\* The stream ended with an error: it came before any completion signal.
EndedByError ==
    FirstIndex(IsStreamEnd) > 0 /\ events[FirstIndex(IsStreamEnd)].kind = "streamError"

\* The chunks of the 'data' events among the first n events, in order.
ChunksAmongFirst(n) ==
    LET data == SelectSeq(SubSeq(events, 1, n), LAMBDA e : e.kind = "data")
    IN [i \in DOMAIN data |-> data[i].chunk]

\* C11: when the stream of getCommits has ended normally, the subscriber has
\* received one value, the list of the chunks delivered before the end, in
\* the order of arrival and as they were; with no chunk it is the empty
\* list, and the invocation has completed, not failed.
C11_ChunksInArrivalOrder ==
    (op = "getCommits" /\ EndedBySignal) =>
        /\ outcome = "completed"
        /\ error = NoError
        /\ emitted = << Emit(ChunksAmongFirst(FirstIndex(IsStreamEnd))) >>

\* Two different chunks, then the end.
C11_Witness ==
    /\ op = "getCommits"
    /\ outcome = "completed"
    /\ Len(emitted) = 1
    /\ Len(emitted[1].value) >= 2
    /\ emitted[1].value[1] # emitted[1].value[2]

\* C12: when the stream has delivered both "close" and "finish", the
\* subscriber has got one terminal notification, not two, and at most one
\* value; for getCommits with no error before the first signal that is one
\* value and one completion, and no error was raised by the second signal.
C12_CompletionIsIdempotent ==
    (op \in ReaderOps /\ CountKind("close") = 1 /\ CountKind("finish") = 1) =>
        /\ CountKind("complete") + CountKind("error") = 1
        /\ CountKind("next") <= 1
        /\ (op = "getCommits" /\ EndedBySignal) =>
              /\ CountKind("next") = 1
              /\ CountKind("complete") = 1
              /\ outcome = "completed"
              /\ error = NoError

\* "finish" came first, "close" second, after at least one chunk.
C12_Witness ==
    /\ op = "getCommits"
    /\ CountKind("data") >= 1
    /\ CountKind("close") = 1
    /\ CountKind("finish") = 1
    /\ FirstIndex(IsCompletionSignal) > 0
    /\ events[FirstIndex(IsCompletionSignal)].kind = "finish"
    /\ EndedBySignal

\* C13: when the stream has signalled an error before any completion
\* signal, the invocation has failed with that error and the subscriber has
\* received no value and no completion, however many chunks came before.
C13_ErrorDiscardsChunks ==
    (op \in ReaderOps /\ EndedByError) =>
        /\ outcome = "errored"
        /\ error = [origin |-> "stream",
                    message |-> events[FirstIndex(IsStreamEnd)].text]
        /\ CountKind("next") = 0
        /\ CountKind("complete") = 0
        /\ CountKind("error") = 1

\* Two chunks, then the error, then a completion signal.
C13_Witness ==
    /\ op = "getCommits"
    /\ EndedByError
    /\ Len(ChunksAmongFirst(FirstIndex(IsStreamEnd))) >= 2
    /\ CountKind("close") = 1

\* t is x without the white space at its two ends.
IsTrimOf(t, x) ==
    \E i \in 1..(Len(x) + 1), j \in 0..Len(x) :
        /\ i <= j + 1
        /\ t = SubSeq(x, i, j)
        /\ \A k \in 1..(i - 1) : SubSeq(x, k, k) \in WhiteSpaceChars
        /\ \A k \in (j + 1)..Len(x) : SubSeq(x, k, k) \in WhiteSpaceChars
        /\ i <= j => /\ SubSeq(x, i, i) \notin WhiteSpaceChars
                     /\ SubSeq(x, j, j) \notin WhiteSpaceChars

\* C14: when the stream of getLastCommitHash has ended normally after at
\* least one chunk, the subscriber has received one value, the first chunk
\* without the white space around it, whatever chunks followed, and the
\* invocation has completed.
C14_FirstRecordTrimmed ==
    (/\ op = "getLastCommitHash"
     /\ EndedBySignal
     /\ ChunksAmongFirst(FirstIndex(IsStreamEnd)) # << >>) =>
        /\ outcome = "completed"
        /\ CountKind("complete") = 1
        /\ Len(emitted) = 1
        /\ IsTrimOf(emitted[1].value, ChunksAmongFirst(FirstIndex(IsStreamEnd))[1])

\* "  abc123\n" came first, another chunk after it: the hash is "abc123".
C14_Witness ==
    /\ op = "getLastCommitHash"
    /\ outcome = "completed"
    /\ Len(commits) >= 2
    /\ commits[1] = "  abc123\n"
    /\ commits[2] # commits[1]
    /\ emitted = << Emit("abc123") >>

\* C15: when the stream of getLastCommitHash has ended normally without any
\* chunk before the end, the invocation has failed and the subscriber has
\* received no value and no completion.
C15_EmptyHistoryFails ==
    (/\ op = "getLastCommitHash"
     /\ EndedBySignal
     /\ ChunksAmongFirst(FirstIndex(IsStreamEnd)) = << >>) =>
        /\ outcome = "errored"
        /\ error.origin = "TypeError"
        /\ CountKind("next") = 0
        /\ CountKind("complete") = 0
        /\ CountKind("error") = 1

\* The stream closed without a chunk.
C15_Witness ==
    /\ op = "getLastCommitHash"
    /\ EndedBySignal
    /\ CountKind("data") = 0
    /\ outcome = "errored"

\* ---- First-Commit Locator
IsBlankChar(x, k) == SubSeq(x, k, k) \in WhiteSpaceChars

\* x[a..b] is a line of x: it holds no line feed and is bounded by line
\* feeds or the ends of x (b = a - 1 for an empty line).
IsLineOf(x, a, b) ==
    /\ a = 1 \/ SubSeq(x, a - 1, a - 1) = "\n"
    /\ b = Len(x) \/ SubSeq(x, b + 1, b + 1) = "\n"
    /\ \A k \in a..b : SubSeq(x, k, k) # "\n"

\* r is the last line of x that is not blank, trimmed; "" if all are blank.
IsLastNonBlankLine(r, x) ==
    IF \A k \in 1..Len(x) : IsBlankChar(x, k)
      THEN r = ""
      ELSE \E a \in 1..Len(x), b \in 1..Len(x) :
              /\ IsLineOf(x, a, b)
              /\ \E k \in a..b : ~IsBlankChar(x, k)
              /\ \A k \in (b + 1)..Len(x) : IsBlankChar(x, k)
              /\ IsTrimOf(r, SubSeq(x, a, b))

\* C16: getFirstCommitRef runs git rev-list once; when it succeeds the
\* subscriber gets one value, the last line of the output that is not blank,
\* trimmed, or "" when every line is blank or the output is empty; when it
\* fails the subscriber gets the error of the command as it is and no value.
C16_LastNonBlankLine ==
    (op = "getFirstCommitRef" /\ pc = "done") =>
        /\ Len(execLog) = 1
        /\ Len(execResults) = 1
        /\ IF execResults[1].ok
             THEN /\ outcome = "completed"
                  /\ Len(emitted) = 1
                  /\ IsLastNonBlankLine(emitted[1].value, execResults[1].text)
             ELSE /\ outcome = "errored"
                  /\ emitted = << >>
                  /\ error = [origin |-> "exec", message |-> execResults[1].text]

\* Two commits are listed, with white space and blank lines around them.
C16_Witness ==
    /\ op = "getFirstCommitRef"
    /\ outcome = "completed"
    /\ execResults[1].text = " a1 \r\n\tb2 \n \n"
    /\ emitted = << Emit("b2") >>

\* ---- Stage Manager
CallIndexes == { i \in DOMAIN events : events[i].kind = "call" }

\* What an addToStage call did: the events after it, up to the next call.
CallSegment(i) ==
    LET later == { j \in CallIndexes : j > i }
        last == IF later = {} THEN Len(events)
                ELSE (CHOOSE j \in later : \A k \in later : j <= k) - 1
    IN SubSeq(events, i + 1, last)

\* What the subscriber of the call saw: values, completion, error.
Observed(i) ==
    SelectSeq(CallSegment(i), LAMBDA e : e.kind \in { "next", "complete", "error" })

HasKind(seq, k) == \E n \in DOMAIN seq : seq[n].kind = k

\* C17: an addToStage call with an empty path list (whatever the flags), or
\* with the skip flag and paths, starts no command and has completed without
\* error; all calls with an empty path list did the same thing.
C17_NoOpCalls ==
    op = "addToStage" =>
        /\ \A i \in CallIndexes :
              (events[i].paths = << >> \/ events[i].skipStage) =>
                  /\ ~HasKind(CallSegment(i), "exec")
                  /\ ~HasKind(CallSegment(i), "error")
                  /\ CallSegment(i) # << >>
                  /\ Last(CallSegment(i)) = Complete
        /\ \A i \in CallIndexes, j \in CallIndexes :
              (events[i].paths = << >> /\ events[j].paths = << >>) =>
                  CallSegment(i) = CallSegment(j)

\* Two calls with an empty path list, the second with other flags.
C17_Witness ==
    /\ op = "addToStage"
    /\ Cardinality(CallIndexes) = 2
    /\ \A i \in CallIndexes : events[i].paths = << >>
    /\ \E i \in CallIndexes, j \in CallIndexes :
          events[i].skipStage /\ ~events[j].skipStage /\ events[j].dryRun

\* C18 as stated: what the subscriber sees of an addToStage call with an
\* empty path list is what it sees of a skipped stage and of a successful
\* git add: the value undefined, then completion, so that a step chained on
\* the value runs.
C18_EmptyPathsLikeCompletedStep ==
    op = "addToStage" =>
        \A i \in CallIndexes :
            (\/ events[i].paths = << >>
             \/ events[i].skipStage
             \/ \E n \in DOMAIN CallSegment(i) :
                    CallSegment(i)[n].kind = "result" /\ CallSegment(i)[n].ok) =>
                Observed(i) = << Emit(Undefined), Complete >>

\* C19: an addToStage call with paths and without the skip flag starts git
\* add once, with "add", then "--dry-run" if and only if dry-run is asked
\* for, and the paths in their order; when the command fails, the call
\* fails with the error of the command as it is, and no value is delivered.
C19_StageCommandOnce ==
    op = "addToStage" =>
        \A i \in CallIndexes :
            (events[i].paths # << >> /\ ~events[i].skipStage) =>
                LET seg == CallSegment(i)
                    cmds == SelectSeq(seg, LAMBDA e : e.kind = "exec")
                    res == SelectSeq(seg, LAMBDA e : e.kind = "result")
                    args == cmds[1].args
                IN /\ Len(cmds) = 1
                   /\ args[1] = "add"
                   /\ (\E n \in DOMAIN args : args[n] = "--dry-run") <=> events[i].dryRun
                   /\ SelectSeq(SubSeq(args, 2, Len(args)), LAMBDA a : a # "--dry-run")
                          = events[i].paths
                   /\ Len(args) = 1 + Len(events[i].paths)
                                    + (IF events[i].dryRun THEN 1 ELSE 0)
                   /\ (res # << >> /\ ~res[1].ok) =>
                          Observed(i) = << Fail([origin |-> "exec",
                                                 message |-> res[1].text]) >>
                   /\ (res # << >> /\ res[1].ok) =>
                          Observed(i) = << Emit(Undefined), Complete >>

\* A dry run with two paths failed.
C19_Witness ==
    /\ op = "addToStage"
    /\ pc = "done"
    /\ outcome = "errored"
    /\ dryRun
    /\ Len(paths) = 2
    /\ error.message # ""

\* ---- Commit History Reader, after the end
\* A completion signal has been received.
SignalReceived == CountKind("close") + CountKind("finish") >= 1

\* The number of chunks delivered after the first end of the stream.
LateChunks ==
    Cardinality({ i \in DOMAIN events :
                    i > FirstIndex(IsStreamEnd) /\ events[i].kind = "data" })

\* The chunks delivered after the first end of the stream are not in the result.
LateChunksLeftOut ==
    (op = "getCommits" /\ EndedBySignal) =>
        /\ Len(emitted) = 1
        /\ Len(emitted[1].value) = CountKind("data") - LateChunks
        /\ \A n \in DOMAIN emitted[1].value :
              \E i \in 1..FirstIndex(IsStreamEnd) :
                  events[i].kind = "data" /\ events[i].chunk = emitted[1].value[n]

\* C20: in getCommits / getLastCommitHash, once "close" or "finish" has been
\* received, no later event of the stream (chunk, error, the other signal)
\* changes what the subscriber has got: the values, the completion, the
\* error and the outcome stay as they are; the list delivered holds the
\* chunks that came before the first completion signal and no later one.
C20_ResultIsFinal ==
    /\ []LateChunksLeftOut
    /\ [][(op \in ReaderOps /\ SignalReceived) =>
            /\ emitted' = emitted
            /\ outcome' = outcome
            /\ error' = error
            /\ CountKind("complete")' = CountKind("complete")
            /\ CountKind("error")' = CountKind("error")]_vars

\* After "finish" a chunk and an error were delivered; the result stands.
C20_Witness ==
    /\ op = "getCommits"
    /\ outcome = "completed"
    /\ EndedBySignal
    /\ events[FirstIndex(IsStreamEnd)].kind = "finish"
    /\ \E j \in DOMAIN events, k \in DOMAIN events :
          /\ j > FirstIndex(IsStreamEnd)
          /\ k > FirstIndex(IsStreamEnd)
          /\ events[j].kind = "data"
          /\ events[k].kind = "streamError"
    /\ Len(emitted[1].value) >= 1

====
